---------------------------- MODULE Spec2Model ----------------------------
(***************************************************************************)
(* A model of omegafold/modules.py: the in-place softmax, the sub-batched  *)
(* attention primitive, Attention.forward, AttentionWEdgeBias.forward and  *)
(* GeometricAttention.forward.                                             *)
(*                                                                         *)
(* Numbers are fixed-point integers: the integer v stands for the real     *)
(* v / One.  The primitive attention works on matrices, sequences of rows; *)
(* the modules work on tensors, records of a shape and of a value for each *)
(* index tuple.  The last part follows the storages the calls write.       *)
(***************************************************************************)
EXTENDS Integers, Sequences, FiniteSets, TLC

VARIABLES
    pc,      \* the position of the running call
    args,    \* the arguments of the call (and the module's attributes)
    locals,  \* the local variables of the call
    ret,     \* what the call returned, or the error it raised
    heap     \* the storages of the tensors, where the calls' effects are followed

vars == <<pc, args, locals, ret, heap>>

(***************************************************************************)
(* Bounds of the model.                                                    *)
(***************************************************************************)
FracBits == 4      \* fractional bits of the fixed-point numbers
MaxLen == 4        \* longest query axis
MaxSeed == 1       \* the tensors' entries are drawn from seeds 0..MaxSeed

One == 2 ^ FracBits
\* an Optional[int] is None or Some(n); a row of torch.empty holds nothing yet
None == <<>>
Some(n) == <<n>>
Uninit == <<>>

(***************************************************************************)
(* Arithmetic helpers.                                                     *)
(***************************************************************************)
\* f itself, with the value at every argument worked out once
Force(f) == f @@ <<>>

Min(a, b) == IF a <= b THEN a ELSE b
Max(a, b) == IF a >= b THEN a ELSE b

RECURSIVE SumSeq(_)
SumSeq(s) == IF s = <<>> THEN 0 ELSE Head(s) + SumSeq(Tail(s))

RECURSIVE MaxSeq(_)
MaxSeq(s) == IF Len(s) = 1 THEN s[1] ELSE Max(s[1], MaxSeq(Tail(s)))

\* fixed-point product
Mul(a, b) == (a * b) \div One

\* torch.exp on a fixed-point x <= 0, to base 2: the integer part of -x halves
\* the result, the fraction is interpolated; far below zero it underflows to 0.
Exp(x) ==
    LET k == (0 - x) \div One
        f == (0 - x) % One
    IN
    IF x >= 0 THEN One
    ELSE IF k > 2 * FracBits THEN 0
    ELSE ((One * (2 * One - f)) \div (2 * One)) \div (2 ^ k)

(***************************************************************************)
(* The tensors the calls are given: entry (i, j) of the tensor of seed s.  *)
(***************************************************************************)
Gen(s, i, j) == ((((s + 2) * i * i + 3 * j + s * i * j + s) % 7) - 3) * (One \div 2)

GenMat(s, rows, cols) == Force([i \in 1..rows |-> Force([j \in 1..cols |-> Gen(s, i, j)])])

(***************************************************************************)
(* Tensor helpers (torch semantics the code relies on).                    *)
(***************************************************************************)
\* the size two broadcast dimensions give, 0 when they cannot be broadcast
Broadcast(a, b) == IF a = b THEN a ELSE IF a = 1 THEN b ELSE IF b = 1 THEN a ELSE 0

\* row i of a matrix that is broadcast along the row axis when it has one row
BRow(m, i) == IF Len(m) = 1 THEN m[1] ELSE m[i]
BCol(r, j) == IF Len(r) = 1 THEN r[1] ELSE r[j]

\* x + y of two matrices, with broadcasting; <<>> when the shapes do not fit
AddMat(x, y) ==
    LET r == Broadcast(Len(x), Len(y))
        c == Broadcast(Len(x[1]), Len(y[1]))
    IN  IF r = 0 \/ c = 0 THEN <<>>
        ELSE Force([i \in 1..r |->
                       Force([j \in 1..c |-> BCol(BRow(x, i), j) + BCol(BRow(y, i), j)])])

\* sum over d of x[d] * y[d]
Dot(x, y) == SumSeq(Force([d \in 1..Len(x) |-> Mul(x[d], y[d])]))

\* x.split(size, dim=-2) for size >= 1: chunks of size rows, the last one shorter
Split(x, size) ==
    LET n == (Len(x) + size - 1) \div size
    IN  Force([i \in 1..n |-> SubSeq(x, (i - 1) * size + 1, Min(i * size, Len(x)))])

\* x[..., start:end, :]: python slicing clips at the end of the axis
Slice(x, start, end) == SubSeq(x, start + 1, Min(end, Len(x)))

(***************************************************************************)
(* Tensors of any rank: a shape and a value for every index tuple (indices *)
(* from 1).  Python dimension numbers (from 0, negative from the end) are  *)
(* turned into positions 1..rank by Pos.                                   *)
(***************************************************************************)
RECURSIVE Indices(_)
Indices(shape) ==
    IF shape = <<>> THEN {<<>>}
    ELSE {<<i>> \o r : i \in 1..Head(shape), r \in Indices(Tail(shape))}

\* the tensor of a shape and of a value for each of the shape's index tuples
Tensor(shape, val) == [shape |-> shape, val |-> Force(val)]

Rank(t) == Len(t.shape)

\* the position of python dimension d in a shape of the given rank
Pos(d, rank) == IF d < 0 THEN d + rank + 1 ELSE d + 1

\* shape[d] with python's negative indexing; 0 when there is no such dimension
ShapeAt(shape, d) ==
    LET p == Pos(d, Len(shape)) IN IF p >= 1 /\ p <= Len(shape) THEN shape[p] ELSE 0

RemoveAt(s, p) == SubSeq(s, 1, p - 1) \o SubSeq(s, p + 1, Len(s))
InsertAt(s, p, x) == SubSeq(s, 1, p - 1) \o <<x>> \o SubSeq(s, p, Len(s))
Swap(s, p, q) == [i \in 1..Len(s) |-> IF i = p THEN s[q] ELSE IF i = q THEN s[p] ELSE s[i]]
LastN(s, n) == SubSeq(s, Len(s) - n + 1, Len(s))
DropLastN(s, n) == SubSeq(s, 1, Len(s) - n)

\* x.unsqueeze(d): a view with a dimension of size 1 put at d
Unsqueeze(t, d) ==
    LET p == Pos(d, Rank(t) + 1)
    IN  Tensor(InsertAt(t.shape, p, 1), [ix \in Indices(InsertAt(t.shape, p, 1)) |-> t.val[RemoveAt(ix, p)]])

\* x.squeeze(d): dimension d removed when its size is 1, x itself otherwise
Squeeze(t, d) ==
    LET p == Pos(d, Rank(t))
    IN  IF t.shape[p] # 1 THEN t
        ELSE Tensor(RemoveAt(t.shape, p), [ix \in Indices(RemoveAt(t.shape, p)) |-> t.val[InsertAt(ix, p, 1)]])

\* x.transpose(d1, d2)
Transpose(t, d1, d2) ==
    LET p == Pos(d1, Rank(t))
        q == Pos(d2, Rank(t))
    IN  Tensor(Swap(t.shape, p, q), [ix \in Indices(Swap(t.shape, p, q)) |-> t.val[Swap(ix, p, q)]])

\* x[..., lo:hi] along the last dimension (one piece of x.split(..., dim=-1))
SliceLast(t, lo, hi) ==
    LET n == Rank(t)
    IN  Tensor([t.shape EXCEPT ![n] = hi - lo],
               [ix \in Indices([t.shape EXCEPT ![n] = hi - lo]) |-> t.val[[ix EXCEPT ![n] = ix[n] + lo]]])

\* x[..., k] (python index k from 0) on the last dimension
SelectLast(t, k) ==
    Tensor(DropLastN(t.shape, 1), [ix \in Indices(DropLastN(t.shape, 1)) |-> t.val[ix \o <<k + 1>>]])

\* x[..., k, :] on the dimension before the last
SelectBeforeLast(t, k) ==
    LET n == Rank(t)
    IN  Tensor(RemoveAt(t.shape, n - 1), [ix \in Indices(RemoveAt(t.shape, n - 1)) |-> t.val[InsertAt(ix, n - 1, k + 1)]])

\* torch.stack([x, y], dim=-1)
Stack(x, y) ==
    Tensor(x.shape \o <<2>>,
           [ix \in Indices(x.shape \o <<2>>) |-> IF ix[Len(ix)] = 1 THEN x.val[DropLastN(ix, 1)]
                       ELSE y.val[DropLastN(ix, 1)]])

\* the shape two shapes broadcast to (aligned at the end); <<0>> when they do not
RECURSIVE BroadcastShape(_, _)
BroadcastShape(s1, s2) ==
    IF s1 = <<>> THEN s2
    ELSE IF s2 = <<>> THEN s1
    ELSE LET rest == BroadcastShape(DropLastN(s1, 1), DropLastN(s2, 1))
             d == Broadcast(s1[Len(s1)], s2[Len(s2)])
         IN  IF rest = <<0>> \/ d = 0 THEN <<0>> ELSE rest \o <<d>>

\* the index of a tensor of the given shape that the index ix of a broadcast
\* result reads
BIndex(shape, ix) ==
    LET off == Len(ix) - Len(shape)
    IN  [k \in 1..Len(shape) |-> IF shape[k] = 1 THEN 1 ELSE ix[k + off]]

\* x + y and x * y, elementwise with broadcasting (the shapes must broadcast)
AddT(x, y) ==
    Tensor(BroadcastShape(x.shape, y.shape),
           [ix \in Indices(BroadcastShape(x.shape, y.shape)) |-> x.val[BIndex(x.shape, ix)] + y.val[BIndex(y.shape, ix)]])

MulT(x, y) ==
    Tensor(BroadcastShape(x.shape, y.shape),
           [ix \in Indices(BroadcastShape(x.shape, y.shape)) |-> Mul(x.val[BIndex(x.shape, ix)], y.val[BIndex(y.shape, ix)])])

\* x += y and x *= y are possible when the broadcast shape is the shape of x
InPlaceOk(x, y) == BroadcastShape(x.shape, y.shape) = x.shape

\* the matrix of the last two dimensions at the batch index bt, as rows
Mat(t, bt) ==
    LET n == Rank(t)
    IN  Force([i \in 1..t.shape[n - 1] |->
                  Force([j \in 1..t.shape[n] |-> t.val[bt \o <<i, j>>]])])

\* the tensor of a seed: entry ix of the tensor of seed s
RECURSIVE GenAt(_, _)
GenAt(s, ix) ==
    IF Len(ix) = 0 THEN Gen(s, 1, 1)
    ELSE IF Len(ix) = 1 THEN Gen(s, ix[1], 1)
    ELSE IF Len(ix) = 2 THEN Gen(s, ix[1], ix[2])
    ELSE GenAt(s + 2 * ix[1] + 1, Tail(ix))

GenTensor(s, shape) == Tensor(shape, [ix \in Indices(shape) |-> GenAt(s, ix)])

(***************************************************************************)
(* torch.einsum of two operands.  lx, lw and lo are the subscripts of the  *)
(* first operand, the second operand and the result after the ellipsis;    *)
(* ellw says whether the second operand has an ellipsis.  Dimensions with  *)
(* the same subscript must have the same size, or size 1.                  *)
(***************************************************************************)
\* the place of subscript c in the list ls, 0 when it is not there
Place(c, ls) == IF \E k \in 1..Len(ls) : ls[k] = c THEN CHOOSE k \in 1..Len(ls) : ls[k] = c ELSE 0

\* the size of subscript c: the sizes of the operands' dimensions, broadcast
LabelSize(c, lx, sx, lw, sw) ==
    LET a == IF Place(c, lx) = 0 THEN 1 ELSE sx[Place(c, lx)]
        b == IF Place(c, lw) = 0 THEN 1 ELSE sw[Place(c, lw)]
    IN  Broadcast(a, b)

\* the index k (from 1) of a row-major enumeration of a shape, as an index tuple
RECURSIVE Unflatten(_, _)
Unflatten(k, shape) ==
    IF shape = <<>> THEN <<>>
    ELSE LET n == shape[Len(shape)]
         IN  Unflatten(((k - 1) \div n) + 1, DropLastN(shape, 1)) \o <<((k - 1) % n) + 1>>

RECURSIVE Prod(_)
Prod(shape) == IF shape = <<>> THEN 1 ELSE Head(shape) * Prod(Tail(shape))

\* the subscripts summed over: those of the operands that the result lacks
Contracted(lx, lw, lo) ==
    LET all == lx \o lw
        keep == {k \in 1..Len(all) :
                    /\ Place(all[k], lo) = 0
                    /\ \A j \in 1..(k - 1) : all[j] # all[k]}
        RECURSIVE Pick(_)
        Pick(k) == IF k > Len(all) THEN <<>>
                   ELSE IF k \in keep THEN <<all[k]>> \o Pick(k + 1) ELSE Pick(k + 1)
    IN  Pick(1)

EinsumOk(x, lx, w, lw, lo, ellw) ==
    /\ Rank(x) >= Len(lx)
    /\ IF ellw THEN Rank(w) >= Len(lw) ELSE Rank(w) = Len(lw)
    /\ LET sx == LastN(x.shape, Len(lx))
           sw == LastN(w.shape, Len(lw))
       IN  /\ \A k \in 1..Len(lx) : LabelSize(lx[k], lx, sx, lw, sw) # 0
           /\ \A k \in 1..Len(lw) : LabelSize(lw[k], lx, sx, lw, sw) # 0
           /\ \A k \in 1..Len(lx) : sx[k] > 0
           /\ \A k \in 1..Len(lw) : sw[k] > 0
    /\ BroadcastShape(DropLastN(x.shape, Len(lx)), DropLastN(w.shape, Len(lw))) # <<0>>

Einsum(x, lx, w, lw, lo) ==
    LET sx == LastN(x.shape, Len(lx))
        sw == LastN(w.shape, Len(lw))
        bx == DropLastN(x.shape, Len(lx))
        bw == DropLastN(w.shape, Len(lw))
        batch == BroadcastShape(bx, bw)
        cl == Contracted(lx, lw, lo)
        cs == [k \in 1..Len(cl) |-> LabelSize(cl[k], lx, sx, lw, sw)]
        os == [k \in 1..Len(lo) |-> LabelSize(lo[k], lx, sx, lw, sw)]
        nb == Len(batch)
        \* the index of subscript c under the result index io and the summed index ct
        At(c, io, ct) == IF Place(c, lo) # 0 THEN io[Place(c, lo)] ELSE ct[Place(c, cl)]
        Term(bt, io, ct) ==
            Mul(x.val[BIndex(bx, bt) \o
                      [k \in 1..Len(lx) |-> IF sx[k] = 1 THEN 1 ELSE At(lx[k], io, ct)]],
                w.val[BIndex(bw, bt) \o
                      [k \in 1..Len(lw) |-> IF sw[k] = 1 THEN 1 ELSE At(lw[k], io, ct)]])
    IN  Tensor(batch \o os,
               [ix \in Indices(batch \o os) |-> SumSeq(Force([n \in 1..Prod(cs) |->
                              Term(SubSeq(ix, 1, nb), SubSeq(ix, nb + 1, Len(ix)),
                                   Unflatten(n, cs))]))])

(***************************************************************************)
(* softmax(x, dim=-1, in_place=True), lines 58-64, on one row.             *)
(***************************************************************************)
softmax_row(x) ==
    LET max_val == MaxSeq(x)
        e == Force([j \in 1..Len(x) |-> Exp(x[j] - max_val)])
        summed == SumSeq(e)
    IN  Force([j \in 1..Len(x) |-> (e[j] * One) \div summed])

softmax(x) == Force([i \in 1..Len(x) |-> softmax_row(x[i])])

(***************************************************************************)
(* _attention, lines 89-92.  The result is [ok, out, attn]; ok is FALSE    *)
(* when logits + bias raises for shapes that cannot be broadcast.          *)
(***************************************************************************)
_attention(query, key, scale, value, bias) ==
    LET qs == Force([i \in 1..Len(query) |->
                        Force([d \in 1..Len(query[i]) |-> Mul(query[i][d], scale)])])
        logits == Force([i \in 1..Len(query) |->
                            Force([j \in 1..Len(key) |-> Dot(qs[i], key[j])])])
        biased == AddMat(logits, bias)
        attn == softmax(biased)
        out == Force([i \in 1..Len(attn) |->
                   Force([d \in 1..Len(value[1]) |->
                       SumSeq(Force([j \in 1..Len(key) |-> Mul(attn[i][j], value[j][d])]))])])
    IN  IF biased = <<>> \/ Len(biased[1]) # Len(key)
        THEN [ok |-> FALSE, out |-> <<>>, attn |-> <<>>]
        ELSE [ok |-> TRUE, out |-> out, attn |-> attn]

(***************************************************************************)
(* attention, lines 95-138.                                                *)
(***************************************************************************)
\* line 118: subbatch_size or q_length (None and 0 are falsy)
OrDefault(subbatch_size, q_length) ==
    IF subbatch_size = None THEN q_length
    ELSE IF subbatch_size[1] = 0 THEN q_length
    ELSE subbatch_size[1]

\* the bias sliced from row 0 for every chunk
ChunkBiasFromZero(bias, q_length, start, end) ==
    IF Len(bias) # q_length THEN bias ELSE Slice(bias, 0, end - start)

\* lines 129-132: the bias of chunk i
ChunkBias(bias, q_length, start, end) ==
    IF Len(bias) # q_length THEN bias ELSE Slice(bias, start, end)

\* lines 135-136: buf[..., start:end, :] = res; [ok, buf, rows written]
AssignRows(buf, start, end, res) ==
    LET n == Min(end, Len(buf)) - start
    IN  IF n < 0 \/ (Len(res) # n /\ Len(res) # 1)
        THEN [ok |-> FALSE, buf |-> buf, rows |-> {}]
        ELSE [ok |-> TRUE,
              buf |-> Force([r \in 1..Len(buf) |->
                          IF r > start /\ r <= start + n THEN BRow(res, r - start) ELSE buf[r]]),
              rows |-> {r \in 1..Len(buf) : r > start /\ r <= start + n}]

\* lines 127-136: the body of the loop for chunk number i (from 0)
ChunkStart(i, subbatch_size) == i * subbatch_size
ChunkEnd(i, subbatch_size) == (i + 1) * subbatch_size

attention_body(a, l) ==
    LET i == l.i
        q_i == l.chunks[i + 1]
        start == ChunkStart(i, l.subbatch_size)
        end == ChunkEnd(i, l.subbatch_size)
        b_i == ChunkBias(a.bias, l.q_length, start, end)
        r == _attention(q_i, a.key, a.scale, a.value, b_i)
        wo == AssignRows(l.output, start, end, r.out)
        wl == AssignRows(l.logits, start, end, r.attn)
    IN  IF ~r.ok \/ ~wo.ok \/ ~wl.ok
        THEN [l EXCEPT !.failed = TRUE]
        ELSE [l EXCEPT !.i = i + 1,
                       !.output = wo.buf,
                       !.logits = wl.buf,
                       !.writes = Force([x \in 1..l.q_length |->
                                      IF x \in wo.rows THEN l.writes[x] + 1 ELSE l.writes[x]])]

\* lines 117-125: the locals before the loop
attention_locals(a) ==
    LET q_length == Len(a.query)
    IN  [q_length |-> q_length,
         subbatch_size |-> OrDefault(a.subbatch_size, q_length),
         output |-> [r \in 1..q_length |-> Uninit],
         logits |-> [r \in 1..q_length |-> Uninit],
         writes |-> [r \in 1..q_length |-> 0],
         chunks |-> <<>>,
         i |-> 0,
         failed |-> FALSE]

\* the whole loop, as Attention.forward runs it
RECURSIVE attention_loop(_, _)
attention_loop(a, l) ==
    IF l.failed \/ l.i >= Len(l.chunks) THEN l ELSE attention_loop(a, attention_body(a, l))

attention(a) ==
    LET l0 == attention_locals(a)
    IN  IF l0.subbatch_size < 0 THEN [l0 EXCEPT !.failed = TRUE]
        ELSE attention_loop(a, [l0 EXCEPT !.chunks = Split(a.query, l0.subbatch_size)])

(***************************************************************************)
(* Attention, lines 323-437.  A module is a record of its attributes; the  *)
(* locals of forward are a record too, error = "" while nothing raised.    *)
(***************************************************************************)
\* torch.sigmoid
Sigmoid(x) ==
    IF x >= 0 THEN (One * One) \div (One + Exp(0 - x))
    ELSE (Exp(x) * One) \div (One + Exp(x))

SigmoidT(t) == Tensor(t.shape, [ix \in Indices(t.shape) |-> Sigmoid(t.val[ix])])

\* line 424: self.c ** (-0.5)
ScaleOf(c) == CHOOSE x \in 0..One : x * x * c <= One * One /\ (x + 1) * (x + 1) * c > One * One

\* lines 348-366: the attributes Attention.__init__ sets, the learned tensors
\* filled from the seed s
Attention_init(q_dim, kv_dim, n_head, gating, c, out_dim, n_axis, s) ==
    [c |-> c, n_head |-> n_head, gating |-> gating, q_dim |-> q_dim, n_axis |-> n_axis,
     qg_weights |-> GenTensor(s, <<q_dim, n_axis, n_head, (IF gating THEN 2 ELSE 1) * c>>),
     kv_weights |-> GenTensor(s + 1, <<kv_dim, n_axis, n_head, 2 * c>>),
     qg_bias |-> GenTensor(s + 2, <<n_axis, n_head, 1, c * (IF gating THEN 2 ELSE 1)>>),
     kv_bias |-> GenTensor(s + 3, <<n_axis, n_head, 1, c * 2>>),
     o_weights |-> GenTensor(s + 4, <<n_axis, n_head, c, out_dim>>),
     o_bias |-> GenTensor(s + 5, <<out_dim, n_axis>>)]

\* the locals of forward at entry
forward_locals(q_inputs, kv_inputs, bias, fwd_cfg) ==
    [q_inputs |-> q_inputs, kv_inputs |-> kv_inputs, bias |-> bias, fwd_cfg |-> fwd_cfg,
     to_unsqueeze |-> FALSE, qg |-> <<>>, q |-> <<>>, kv |-> <<>>, k |-> <<>>, v |-> <<>>,
     subbatch_size |-> None, attn_out |-> <<>>, logits |-> <<>>, chunks |-> 0,
     output |-> <<>>, error |-> ""]

\* lines 395-398
ToUnsqueeze(self, q_inputs) ==
    /\ ShapeAt(q_inputs.shape, -1) # self.n_axis
    /\ ShapeAt(q_inputs.shape, -1) = self.q_dim

\* lines 394-403
forward_unsqueeze(self, l) ==
    LET to_unsqueeze == ToUnsqueeze(self, l.q_inputs)
    IN  IF ~to_unsqueeze THEN l
        ELSE IF l.bias # None /\ Rank(l.bias[1]) < 3
        THEN [l EXCEPT !.error = "unsqueeze: dimension out of range"]
        ELSE [l EXCEPT !.to_unsqueeze = TRUE,
                       !.q_inputs = Unsqueeze(@, -1),
                       !.kv_inputs = Unsqueeze(@, -1),
                       !.bias = IF @ = None THEN None ELSE Some(Unsqueeze(@[1], -4))]

\* lines 407-408 and 429: the query channels and the gate channels of qg
QueryPart(self, qg) == SliceLast(qg, 0, self.c)
GatePart(self, qg) == SliceLast(qg, self.c, 2 * self.c)

\* lines 405-408
forward_qg(self, l) ==
    IF ~EinsumOk(l.q_inputs, <<"q", "a", "r">>, self.qg_weights, <<"a", "r", "h", "c">>,
                 <<"r", "h", "q", "c">>, FALSE)
    THEN [l EXCEPT !.error = "einsum: q_inputs"]
    ELSE LET qg == Einsum(l.q_inputs, <<"q", "a", "r">>, self.qg_weights,
                          <<"a", "r", "h", "c">>, <<"r", "h", "q", "c">>)
         IN  IF ~InPlaceOk(qg, self.qg_bias) THEN [l EXCEPT !.error = "qg += qg_bias"]
             ELSE LET qgb == AddT(qg, self.qg_bias)
                  IN  [l EXCEPT !.qg = qgb, !.q = QueryPart(self, qgb)]

\* lines 410-412
forward_kv(self, l) ==
    IF ~EinsumOk(l.kv_inputs, <<"k", "a", "r">>, self.kv_weights, <<"a", "r", "h", "c">>,
                 <<"r", "h", "k", "c">>, FALSE)
    THEN [l EXCEPT !.error = "einsum: kv_inputs"]
    ELSE LET kv == Einsum(l.kv_inputs, <<"k", "a", "r">>, self.kv_weights,
                          <<"a", "r", "h", "c">>, <<"r", "h", "k", "c">>)
         IN  IF ~InPlaceOk(kv, self.kv_bias) THEN [l EXCEPT !.error = "kv += kv_bias"]
             ELSE LET kvb == AddT(kv, self.kv_bias)
                  IN  [l EXCEPT !.kv = kvb,
                                !.k = SliceLast(kvb, 0, self.c),
                                !.v = SliceLast(kvb, self.c, 2 * self.c)]

\* lines 415-417
SubbatchSize(q, fwd_cfg) ==
    IF fwd_cfg = None THEN Some(ShapeAt(q.shape, -4)) ELSE fwd_cfg[1].subbatch_size

\* attention (lines 95-138) on tensors with leading dimensions: the chunk loop
\* runs once for all of them; [ok, output, logits, chunks]
attention_batched(query, key, scale, value, bias, subbatch_size) ==
    LET batch == DropLastN(query.shape, 2)
        bb == DropLastN(bias.shape, 2)
        n == Rank(query)
        run == Force([bt \in Indices(batch) |->
                   attention([query |-> Mat(query, bt), key |-> Mat(key, bt), scale |-> scale,
                              value |-> Mat(value, bt),
                              bias |-> Mat(bias, BIndex(bb, LastN(bt, Len(bb)))),
                              subbatch_size |-> subbatch_size])])
        first == run[CHOOSE bt \in Indices(batch) : TRUE]
    IN  IF \/ Len(bb) > Len(batch)
           \/ BroadcastShape(batch, bb) # batch
           \/ DropLastN(key.shape, 2) # batch
           \/ DropLastN(value.shape, 2) # batch
        THEN [ok |-> FALSE, output |-> <<>>, logits |-> <<>>, chunks |-> 0]
        ELSE IF \E bt \in Indices(batch) : run[bt].failed
        THEN [ok |-> FALSE, output |-> <<>>, logits |-> <<>>, chunks |-> first.i]
        ELSE [ok |-> TRUE,
              output |-> Tensor(batch \o <<query.shape[n - 1], value.shape[n]>>,
                                [ix \in Indices(batch \o <<query.shape[n - 1], value.shape[n]>>) |-> run[SubSeq(ix, 1, n - 2)].output[ix[n - 1]][ix[n]]]),
              logits |-> Tensor(batch \o <<query.shape[n - 1], key.shape[n - 1]>>,
                                [ix \in Indices(batch \o <<query.shape[n - 1], key.shape[n - 1]>>) |-> run[SubSeq(ix, 1, n - 2)].logits[ix[n - 1]][ix[n]]]),
              chunks |-> first.i]

\* lines 414-425
forward_attention(self, l) ==
    LET subbatch_size == SubbatchSize(l.q, l.fwd_cfg)
    IN  IF l.bias = None
        THEN [l EXCEPT !.subbatch_size = subbatch_size,
                       !.error = "attention: bias is None"]
        ELSE LET r == attention_batched(l.q, l.k, ScaleOf(self.c), l.v, l.bias[1],
                                        subbatch_size)
             IN  IF ~r.ok
                 THEN [l EXCEPT !.subbatch_size = subbatch_size, !.chunks = r.chunks,
                                !.error = "attention"]
                 ELSE [l EXCEPT !.subbatch_size = subbatch_size, !.chunks = r.chunks,
                                !.attn_out = r.output, !.logits = r.logits]

\* the gate read from the query channels q_out[0]
forward_gating_from_query(self, l) ==
    IF ~self.gating THEN l
    ELSE [l EXCEPT !.attn_out = MulT(@, SigmoidT(QueryPart(self, l.qg)))]

\* lines 427-430
forward_gating(self, l) ==
    IF ~self.gating THEN l
    ELSE [l EXCEPT !.attn_out = MulT(@, SigmoidT(GatePart(self, l.qg)))]

\* lines 432-433
forward_output(self, l) ==
    IF ~EinsumOk(l.attn_out, <<"r", "h", "q", "c">>, self.o_weights, <<"r", "h", "c", "o">>,
                 <<"q", "o", "r">>, FALSE)
    THEN [l EXCEPT !.error = "einsum: attn_out"]
    ELSE LET output == Einsum(l.attn_out, <<"r", "h", "q", "c">>, self.o_weights,
                              <<"r", "h", "c", "o">>, <<"q", "o", "r">>)
         IN  IF ~InPlaceOk(output, self.o_bias) THEN [l EXCEPT !.error = "output += o_bias"]
             ELSE [l EXCEPT !.output = AddT(output, self.o_bias)]

\* line 437: logits[..., None].transpose(-1, -4).squeeze(-4)
HeadLast(logits) == Squeeze(Transpose(Unsqueeze(logits, -1), -1, -4), -4)

\* lines 435-437
forward_return(self, l) ==
    IF l.to_unsqueeze
    THEN [l EXCEPT !.output = Squeeze(@, -1), !.logits = HeadLast(Squeeze(@, -4))]
    ELSE [l EXCEPT !.logits = HeadLast(@)]

\* step k of forward, in the order of the statements
forward_step(self, k, l) ==
    CASE k = 1 -> forward_unsqueeze(self, l)
      [] k = 2 -> forward_qg(self, l)
      [] k = 3 -> forward_kv(self, l)
      [] k = 4 -> forward_attention(self, l)
      [] k = 5 -> forward_gating(self, l)
      [] k = 6 -> forward_output(self, l)
      [] k = 7 -> forward_return(self, l)

\* forward from step k on, with the locals l; a step that raises ends the call
RECURSIVE forward_from(_, _, _)
forward_from(self, k, l) ==
    IF k > 7 \/ l.error # "" THEN l
    ELSE CHOOSE r \in {forward_from(self, k + 1, x) : x \in {forward_step(self, k, l)}} : TRUE

\* lines 394-437, the whole call
Attention_forward(self, q_inputs, kv_inputs, bias, fwd_cfg) ==
    forward_from(self, 1, forward_locals(q_inputs, kv_inputs, bias, fwd_cfg))

(***************************************************************************)
(* The call attention(query, key, scale, value, bias, subbatch_size),      *)
(* one action per step.                                                    *)
(***************************************************************************)
MaxKeys == 3
MaxDim == 2

AttentionArgs ==
    { [query |-> GenMat(s, n_q, d),
       key |-> GenMat(s + 1, n_k, d),
       scale |-> sc,
       value |-> GenMat(s + 2, n_k, d),
       bias |-> GenMat(s + 3, n_b, n_k),
       subbatch_size |-> sb] :
      s \in 0..MaxSeed, n_q \in 1..MaxLen, n_k \in 2..MaxKeys, d \in 1..MaxDim,
      sc \in {One, One \div 2}, n_b \in 1..MaxLen,
      sb \in {None} \cup {Some(n) : n \in -1..(MaxLen + 1)} }

InitAttention ==
    /\ pc = "attention"
    /\ args \in AttentionArgs
    /\ locals = <<>>
    /\ ret = None
    /\ heap = <<>>

\* lines 117-125
attention_enter ==
    /\ pc = "attention"
    /\ locals' = attention_locals(args)
    /\ pc' = "split"
    /\ UNCHANGED <<args, ret, heap>>

\* line 127: query.split(subbatch_size, dim=-2) raises for a negative size
attention_split ==
    /\ pc = "split"
    /\ IF locals.subbatch_size < 0
       THEN /\ pc' = "error"
            /\ ret' = <<"error", "split: negative size">>
            /\ UNCHANGED locals
       ELSE /\ pc' = "loop"
            /\ locals' = [locals EXCEPT !.chunks = Split(args.query, locals.subbatch_size)]
            /\ UNCHANGED ret
    /\ UNCHANGED <<args, heap>>

\* lines 127-136: one chunk
attention_chunk ==
    /\ pc = "loop"
    /\ locals.i < Len(locals.chunks)
    /\ LET l == attention_body(args, locals)
       IN  IF l.failed
           THEN /\ pc' = "error"
                /\ ret' = <<"error", "shape mismatch">>
                /\ UNCHANGED locals
           ELSE /\ locals' = l
                /\ UNCHANGED <<pc, ret>>
    /\ UNCHANGED <<args, heap>>

\* line 138
attention_return ==
    /\ pc = "loop"
    /\ locals.i >= Len(locals.chunks)
    /\ pc' = "done"
    /\ ret' = <<"ok", locals.output, locals.logits>>
    /\ UNCHANGED <<args, locals, heap>>

NextAttention ==
    \/ attention_enter
    \/ attention_split
    \/ attention_chunk
    \/ attention_return

SpecAttention == InitAttention /\ [][NextAttention]_vars

(***************************************************************************)
(* The call Attention.forward(q_inputs, kv_inputs, bias, fwd_cfg=...),     *)
(* one action per step.                                                    *)
(***************************************************************************)
MaxFeat == 2       \* largest q_dim = kv_dim = out_dim
MaxAxis == 2       \* largest n_axis
MaxHead == 2       \* largest n_head
MaxC == 1          \* largest per-head dimension c
MaxBatch == 1      \* most leading dimensions of the inputs
FwdLen == 2        \* longest query axis of a forward call

\* the gate half of qg_weights zeroed and the gate half of qg_bias saturating:
\* the gate of such a module is sigmoid(large positive) at every position
GateForcedToOne(self) ==
    [self EXCEPT
        !.qg_weights = Tensor(@.shape, [ix \in Indices(@.shape) |-> IF ix[4] > self.c THEN 0 ELSE @.val[ix]]),
        !.qg_bias = Tensor(@.shape, [ix \in Indices(@.shape) |-> IF ix[4] > self.c THEN 4 * FracBits * One
                                                ELSE @.val[ix]])]

Modules ==
    LET plain == { Attention_init(d, d, h, g, MaxC, d, r, MaxSeed) :
                     d \in {1, MaxFeat}, h \in {1, MaxHead}, g \in BOOLEAN, r \in 1..MaxAxis }
    IN  plain \cup {GateForcedToOne(m) : m \in {x \in plain : x.gating}}

FwdCfgs ==
    {None} \cup {Some([subbatch_size |-> sb]) : sb \in {None, Some(0), Some(1), Some(FwdLen)}}

BatchShapes == {[k \in 1..n |-> 2] : n \in 0..MaxBatch}

\* the inputs of a call on the module self.  batch and track say what the caller
\* passes: the leading dimensions, and <<>> for plain (..., length, feature_dim)
\* inputs or <<n_axis>> for inputs with the trailing track axis; the bias has a
\* head axis, after a track axis when the inputs have one
ForwardArgs(self) ==
    { [self |-> self, batch |-> batch, track |-> track,
       q_inputs |-> GenTensor(MaxSeed, batch \o <<q_len, self.q_dim>> \o track),
       kv_inputs |-> GenTensor(MaxSeed + 1, batch \o <<FwdLen + 1, self.q_dim>> \o track),
       bias |-> Some(GenTensor(MaxSeed + 2, batch \o track \o <<self.n_head, q_len, FwdLen + 1>>)),
       fwd_cfg |-> cfg] :
      batch \in BatchShapes, q_len \in {1, FwdLen}, track \in {<<>>, <<self.n_axis>>},
      cfg \in FwdCfgs }

InitForward ==
    /\ pc = "unsqueeze"
    /\ \E self \in Modules : args \in ForwardArgs(self)
    /\ locals = forward_locals(args.q_inputs, args.kv_inputs, args.bias, args.fwd_cfg)
    /\ ret = <<>>
    /\ heap = <<>>

\* the locals l after a step: the step raised, or forward goes on at next
StepTo(l, next) ==
    /\ locals' = l
    /\ IF l.error # ""
       THEN pc' = "error" /\ ret' = <<"error", l.error>>
       ELSE pc' = next /\ UNCHANGED ret
    /\ UNCHANGED <<args, heap>>

\* lines 394-403
Attention_unsqueeze ==
    /\ pc = "unsqueeze"
    /\ StepTo(forward_unsqueeze(args.self, locals), "qg")

\* lines 405-408
Attention_qg ==
    /\ pc = "qg"
    /\ StepTo(forward_qg(args.self, locals), "kv")

\* lines 410-412
Attention_kv ==
    /\ pc = "kv"
    /\ StepTo(forward_kv(args.self, locals), "attention")

\* lines 414-425
Attention_attention ==
    /\ pc = "attention"
    /\ StepTo(forward_attention(args.self, locals), "gating")

\* lines 427-430
Attention_gating ==
    /\ pc = "gating"
    /\ StepTo(forward_gating(args.self, locals), "output")

\* lines 432-433
Attention_output ==
    /\ pc = "output"
    /\ StepTo(forward_output(args.self, locals), "return")

\* lines 435-437
Attention_return ==
    /\ pc = "return"
    /\ locals' = forward_return(args.self, locals)
    /\ pc' = "done"
    /\ ret' = <<"ok", locals'.output, locals'.logits>>
    /\ UNCHANGED <<args, heap>>

NextForward ==
    \/ Attention_unsqueeze
    \/ Attention_qg
    \/ Attention_kv
    \/ Attention_attention
    \/ Attention_gating
    \/ Attention_output
    \/ Attention_return

SpecForward == InitForward /\ [][NextForward]_vars

(***************************************************************************)
(* Claims about attention.                                                 *)
(***************************************************************************)
\* the call is one the contract covers: a chunk size >= 1 and a bias with one
\* row per query, or a single shared row
ChunkedCall ==
    /\ args.subbatch_size # None
    /\ args.subbatch_size[1] >= 1
    /\ Len(args.bias) \in {1, Len(args.query)}

\* row i as _attention computes it alone from query row i, all keys and values,
\* and bias row i (the shared row of a one-row bias)
RowAlone(i) ==
    _attention(<<args.query[i]>>, args.key, args.scale, args.value, <<BRow(args.bias, i)>>)

\* the call with subbatch_size = n_q
FullCall == attention([args EXCEPT !.subbatch_size = Some(Len(args.query))])

\* C1: for every n_q >= 1 and every chunk size c >= 1 the chunked call does not
\* fail, and it returns for every query row the attended row and the weight row
\* of the call with subbatch_size = n_q, each computed from that query row and
\* its bias row alone; every row of both buffers is written exactly once.
C1_ChunkInvariance ==
    ChunkedCall =>
        /\ pc # "error"
        /\ pc = "loop" => \A r \in 1..locals.q_length : locals.writes[r] <= 1
        /\ pc = "done" =>
              /\ ret[2] = FullCall.output
              /\ ret[3] = FullCall.logits
              /\ \A r \in 1..locals.q_length :
                    /\ locals.writes[r] = 1
                    /\ ret[2][r] = RowAlone(r).out[1]
                    /\ ret[3][r] = RowAlone(r).attn[1]

\* a finished call of three chunks, the last one shorter, with a bias row per query
C1_Witness ==
    /\ pc = "done"
    /\ ChunkedCall
    /\ Len(args.query) = 4
    /\ Len(args.bias) = 4
    /\ args.subbatch_size = Some(3)
    /\ locals.i = 2

\* C7: a call with a chunk size <= 0 ends in an error, it never returns a result.
C7_NonPositiveChunkRaises ==
    (args.subbatch_size # None /\ args.subbatch_size[1] <= 0) => pc # "done"

\* C8: a call whose bias has neither one row nor n_q rows ends in an error for
\* every chunk size, it never returns a result.
C8_MismatchedBiasRaises ==
    (Len(args.bias) \notin {1, Len(args.query)}) => pc # "done"

(***************************************************************************)
(* Claims about Attention.forward.                                         *)
(***************************************************************************)
\* the caller passed plain (..., length, feature_dim) inputs
PlainInputs == args.track = <<>>

Past(places) == pc \in places

\* the shapes forward documents for its results (lines 389-391)
OutputShape == args.batch \o <<ShapeAt(args.q_inputs.shape, -2 - Len(args.track)),
                               args.self.q_dim>> \o args.track
WeightsShape == args.batch \o args.track \o
                <<ShapeAt(args.q_inputs.shape, -2 - Len(args.track)),
                  ShapeAt(args.kv_inputs.shape, -2 - Len(args.track)),
                  args.self.n_head>>

\* C2: for every q_dim and n_axis, plain inputs get the track axis inserted on
\* q_inputs, kv_inputs and bias, and it is removed again from the output and
\* the weights: the output has a track axis exactly when the inputs had one.
C2_TrackAxisRoundTrip ==
    /\ (PlainInputs /\ pc # "unsqueeze") => locals.to_unsqueeze
    /\ (PlainInputs /\ pc = "qg") =>
          /\ locals.q_inputs.shape = args.q_inputs.shape \o <<1>>
          /\ locals.kv_inputs.shape = args.kv_inputs.shape \o <<1>>
          /\ Rank(locals.bias[1]) = Rank(args.bias[1]) + 1
    /\ (PlainInputs /\ locals.fwd_cfg = None) => pc # "error"
    /\ pc = "done" => (ret[2].shape = OutputShape /\ ret[3].shape = WeightsShape)

\* C6: with no sub-batch size (fwd_cfg is None) the attention of forward is
\* computed in a single chunk: the chunk loop runs exactly once.
C6_DefaultIsOneChunk ==
    (args.fwd_cfg = None /\ Past({"gating", "output", "return", "done"})) => locals.chunks = 1

\* the module with gating disabled and the same query, key, value and output weights
WithoutGate(self) ==
    [self EXCEPT !.gating = FALSE,
                 !.qg_weights = SliceLast(@, 0, self.c),
                 !.qg_bias = SliceLast(@, 0, self.c)]

\* the gate of the call evaluates to 1 at every position
GateIsOne ==
    /\ args.self.gating
    /\ \A ix \in DOMAIN locals.qg.val :
          ix[Len(ix)] > args.self.c => Sigmoid(locals.qg.val[ix]) = One

UngatedCall ==
    Attention_forward(WithoutGate(args.self), args.q_inputs, args.kv_inputs, args.bias,
                      args.fwd_cfg)

\* C9: a call with gating enabled whose gate evaluates to 1 at every position
\* returns the output and the weights, shapes and values, that the module with
\* gating disabled and the same weights returns for the same inputs.
C9_GatingBypass ==
    (pc = "done" /\ GateIsOne) =>
        /\ UngatedCall.error = ""
        /\ ret[2] = UngatedCall.output
        /\ ret[3] = UngatedCall.logits

\* a finished gated call whose gate is 1 everywhere, on inputs with two tracks
C9_Witness ==
    /\ pc = "done"
    /\ GateIsOne
    /\ args.self.n_head > 1
    /\ args.track = <<2>>
    /\ \E ix \in DOMAIN ret[2].val : ret[2].val[ix] # 0

\* the post-softmax weights of one head, as _attention computes them from the
\* head's queries, keys and bias: ix is the index of the head among the leading
\* dimensions (batch, track, head) of the query tensor
HeadWeights(ix) ==
    _attention(Mat(locals.q, ix), Mat(locals.k, ix), ScaleOf(args.self.c), Mat(locals.v, ix),
               Mat(locals.bias[1], BIndex(DropLastN(locals.bias[1].shape, 2),
                                          LastN(ix, Rank(locals.bias[1]) - 2)))).attn

\* the index (batch, track, head) of the head that the entry ix of the returned
\* weights belongs to; plain inputs have the single track 1
HeadOf(ix) ==
    LET lead == SubSeq(ix, 1, Len(ix) - 3)
    IN  (IF PlainInputs THEN lead \o <<1>> ELSE lead) \o <<ix[Len(ix)]>>

\* C11: the weights forward returns have the shape (..., q_len, kv_len, n_head),
\* with the track axis before q_len exactly when the inputs carried one, and
\* the entry [q, k, h] is the post-softmax weight head h gives from query q to
\* key k, for every n_head >= 1.
C11_HeadAxisLast ==
    pc = "done" =>
        /\ ret[3].shape = WeightsShape
        /\ \A ix \in DOMAIN ret[3].val :
              ret[3].val[ix] = HeadWeights(HeadOf(ix))[ix[Len(ix) - 2]][ix[Len(ix) - 1]]

(***************************************************************************)
(* utils.normalize and utils.mask2bias.  Their code is not part of the     *)
(* module; they are modelled from section 4.6 of the specification:        *)
(* mean/variance standardisation over the trailing feature axis with a     *)
(* small epsilon, and the map 1 -> 0, 0 -> a large negative constant.      *)
(***************************************************************************)
Inf == 1000000000

\* the largest x in lo..hi with x * x <= n
RECURSIVE SqrtBetween(_, _, _)
SqrtBetween(n, lo, hi) ==
    IF lo >= hi THEN lo
    ELSE LET mid == (lo + hi + 1) \div 2
         IN  IF mid * mid <= n THEN SqrtBetween(n, mid, hi) ELSE SqrtBetween(n, lo, mid - 1)

\* the fixed-point square root of a fixed-point v >= 0
Sqrt(v) == SqrtBetween(v * One, 0, Min(v * One, 2 ^ 15))

normalize_row(x) ==
    LET n == Len(x)
        mean == SumSeq(x) \div n
        dev == Force([j \in 1..n |-> x[j] - mean])
        var == SumSeq(Force([j \in 1..n |-> Mul(dev[j], dev[j])])) \div n
    IN  Force([j \in 1..n |-> (dev[j] * One) \div (Sqrt(var) + 1)])

normalize(t) ==
    LET n == Rank(t)
        rows == Force([bt \in Indices(DropLastN(t.shape, 1)) |->
                          normalize_row(Force([j \in 1..t.shape[n] |-> t.val[bt \o <<j>>]]))])
    IN  Tensor(t.shape, [ix \in Indices(t.shape) |-> rows[DropLastN(ix, 1)][ix[n]]])

mask2bias(mask) ==
    Tensor(mask.shape, [ix \in Indices(mask.shape) |-> ((mask.val[ix] - One) \div One) * Inf])

(***************************************************************************)
(* More of torch: nn.Linear, permute, nn.GLU.                              *)
(***************************************************************************)
\* nn.Linear(in_features, out_features) filled from the seed s
Linear_init(in_features, out_features, s) ==
    [weight |-> GenTensor(s, <<out_features, in_features>>),
     bias |-> GenTensor(s + 1, <<out_features>>)]

\* the call of an nn.Linear on x: x @ weight.T + bias
Linear(self, x) ==
    AddT(Einsum(x, <<"i">>, self.weight, <<"o", "i">>, <<"o">>), self.bias)

\* x.permute(*dims) needs one python dimension for each dimension of x
PermuteOk(t, dims) == Len(dims) = Rank(t)

Permute(t, dims) ==
    LET n == Rank(t)
        shape == [k \in 1..n |-> t.shape[dims[k] + 1]]
    IN  Tensor(shape, [ix \in Indices(shape) |->
                          t.val[[p \in 1..n |-> ix[CHOOSE k \in 1..n : dims[k] + 1 = p]]]])

\* nn.GLU() over the last dimension: first half * sigmoid(second half)
GLU(t) ==
    LET n == Rank(t)
        half == t.shape[n] \div 2
        shape == [t.shape EXCEPT ![n] = half]
    IN  Tensor(shape, [ix \in Indices(shape) |->
                          Mul(t.val[ix], Sigmoid(t.val[[ix EXCEPT ![n] = ix[n] + half]]))])

(***************************************************************************)
(* AttentionWEdgeBias, lines 440-491.                                      *)
(***************************************************************************)
\* lines 449-461
AttentionWEdgeBias_init(d_node, d_edge, n_head, attn_gating, attn_c, s) ==
    [proj_edge_bias |-> Linear_init(d_edge, n_head, s + 6),
     attention |-> Attention_init(d_node, d_node, n_head, attn_gating, attn_c, d_node, 1, s)]

\* the locals of forward at entry
edge_locals(node_repr, edge_repr, mask, fwd_cfg) ==
    [node_repr |-> node_repr, edge_repr |-> edge_repr, mask |-> mask, fwd_cfg |-> fwd_cfg,
     edge_bias |-> <<>>, bias |-> <<>>, inner |-> <<>>, attn_out |-> <<>>, error |-> ""]

\* lines 482-483
edge_normalize(self, l) ==
    [l EXCEPT !.node_repr = normalize(@), !.edge_repr = normalize(@)]

\* line 485
edge_project(self, l) ==
    LET projected == Linear(self.proj_edge_bias, l.edge_repr)
    IN  IF ~PermuteOk(projected, <<2, 0, 1>>)
        THEN [l EXCEPT !.error = "permute: number of dimensions"]
        ELSE [l EXCEPT !.edge_bias = Permute(projected, <<2, 0, 1>>)]

\* line 487: mask[..., None, None, :], the mask along the key axis
edge_mask_over_queries(mask) == Unsqueeze(Unsqueeze(mask, -1), -3)

edge_mask_index(mask) == Unsqueeze(Unsqueeze(mask, -2), -2)

\* line 487
edge_bias(self, l) ==
    LET mask_bias == mask2bias(edge_mask_index(l.mask))
    IN  IF BroadcastShape(l.edge_bias.shape, mask_bias.shape) = <<0>>
        THEN [l EXCEPT !.error = "edge_bias + mask bias"]
        ELSE [l EXCEPT !.bias = AddT(l.edge_bias, mask_bias)]

\* lines 488-491: the locals once self.attention has returned the locals inner
edge_attended(l, inner) ==
    IF inner.error # "" THEN [l EXCEPT !.inner = inner, !.error = inner.error]
    ELSE [l EXCEPT !.inner = inner, !.attn_out = inner.output]

\* lines 488-490
edge_attention(self, l) ==
    CHOOSE r \in { edge_attended(l, inner) :
                     inner \in {Attention_forward(self.attention, l.node_repr, l.node_repr,
                                                  Some(l.bias), l.fwd_cfg)} } : TRUE

\* lines 482-491
AttentionWEdgeBias_forward(self, node_repr, edge_repr, mask, fwd_cfg) ==
    LET l0 == edge_locals(node_repr, edge_repr, mask, fwd_cfg)
        l1 == edge_normalize(self, l0)
        l2 == edge_project(self, l1)
        l3 == IF l2.error # "" THEN l2 ELSE edge_bias(self, l2)
    IN  IF l3.error # "" THEN l3 ELSE edge_attention(self, l3)

(***************************************************************************)
(* GeometricAttention, lines 494-562.                                      *)
(***************************************************************************)
\* line 530: the two tensors forward stacks, the edges and their transpose
Tracks == 2

\* lines 495-523
GeometricAttention_init(d_edge, c, n_head, n_axis, s) ==
    [d_edge |-> d_edge,
     linear_b_weights |-> GenTensor(s + 6, <<d_edge, n_axis, n_head>>),
     linear_b_bias |-> GenTensor(s + 7, <<n_axis, n_head, 1, 1>>),
     act_w |-> GenTensor(s + 8, <<d_edge, n_axis, d_edge * 5>>),
     act_b |-> GenTensor(s + 9, <<n_axis, d_edge * 5>>),
     out_proj_w |-> GenTensor(s + 10, <<n_axis, d_edge, d_edge>>),
     out_proj_b |-> GenTensor(s + 11, <<n_axis, d_edge>>),
     attention |-> Attention_init(d_edge, d_edge, n_head, TRUE, c, d_edge, n_axis, s)]

\* the locals of forward at entry
geo_locals(edge_repr, mask) ==
    [edge_repr |-> edge_repr, mask |-> mask, edge_stacked |-> <<>>, linear_b |-> <<>>,
     b |-> <<>>, inner |-> <<>>, attended |-> <<>>, act |-> <<>>, g |-> <<>>, ab |-> <<>>,
     gated |-> <<>>, outer |-> <<>>, attn |-> <<>>, out |-> <<>>, error |-> ""]

\* lines 529-532
geo_stack(self, l) ==
    LET edge_repr == normalize(l.edge_repr)
    IN  [l EXCEPT !.edge_repr = edge_repr,
                  !.edge_stacked = Stack(edge_repr, Transpose(edge_repr, -2, -3))]

\* line 537: mask[..., None, None, None, :], the mask along the key axis
geo_mask_index(mask) == Unsqueeze(Unsqueeze(Unsqueeze(mask, -2), -2), -2)

\* lines 534-537
geo_b(self, l) ==
    IF ~EinsumOk(l.edge_stacked, <<"q", "k", "c", "r">>, self.linear_b_weights,
                 <<"c", "r", "h">>, <<"r", "h", "q", "k">>, FALSE)
    THEN [l EXCEPT !.error = "einsum: edge_stacked"]
    ELSE LET product == Einsum(l.edge_stacked, <<"q", "k", "c", "r">>, self.linear_b_weights,
                               <<"c", "r", "h">>, <<"r", "h", "q", "k">>)
             mask_bias == mask2bias(geo_mask_index(l.mask))
         IN  IF BroadcastShape(product.shape, self.linear_b_bias.shape) = <<0>>
             THEN [l EXCEPT !.error = "einsum + linear_b_bias"]
             ELSE LET b == AddT(product, self.linear_b_bias)
                  IN  IF ~InPlaceOk(b, mask_bias) THEN [l EXCEPT !.error = "b += mask bias"]
                      ELSE [l EXCEPT !.linear_b = b, !.b = AddT(b, mask_bias)]

\* line 538: the locals once self.attention has returned the locals inner
geo_attended(l, inner) ==
    IF inner.error # "" THEN [l EXCEPT !.inner = inner, !.error = inner.error]
    ELSE [l EXCEPT !.inner = inner, !.attended = inner.output]

\* line 538
geo_attention(self, l) ==
    CHOOSE r \in { geo_attended(l, inner) :
                     inner \in {Attention_forward(self.attention, l.edge_stacked,
                                                  l.edge_stacked, Some(l.b), None)} } : TRUE

\* lines 540-547
geo_act(self, l) ==
    IF ~EinsumOk(l.edge_stacked, <<"d", "r">>, self.act_w, <<"d", "r", "c">>, <<"r", "c">>,
                 FALSE)
    THEN [l EXCEPT !.error = "einsum: act"]
    ELSE LET product == Einsum(l.edge_stacked, <<"d", "r">>, self.act_w, <<"d", "r", "c">>,
                               <<"r", "c">>)
             both == AddT(product, self.act_b)
             act == GLU(SliceLast(both, 0, self.d_edge * 4))
             edge_mask == MulT(Unsqueeze(l.mask, 0), Unsqueeze(l.mask, -1))
             factor == Unsqueeze(Unsqueeze(edge_mask, -1), -1)
         IN  IF ~InPlaceOk(act, factor) THEN [l EXCEPT !.error = "act *= edge_mask"]
             ELSE [l EXCEPT !.act = MulT(act, factor),
                            !.g = SliceLast(both, self.d_edge * 4, self.d_edge * 5)]

\* lines 549-556
geo_ab(self, l) ==
    LET left == SliceLast(l.act, 0, self.d_edge)
        right == SliceLast(l.act, self.d_edge, 2 * self.d_edge)
    IN  IF ~EinsumOk(left, <<"i", "k", "r", "d">>, right, <<"j", "k", "r", "d">>,
                     <<"i", "j", "r", "d">>, TRUE)
        THEN [l EXCEPT !.error = "einsum: ab"]
        ELSE LET ab == normalize(Einsum(left, <<"i", "k", "r", "d">>, right,
                                        <<"j", "k", "r", "d">>, <<"i", "j", "r", "d">>))
             IN  IF ~EinsumOk(ab, <<"r", "d">>, self.out_proj_w, <<"r", "d", "c">>,
                              <<"r", "c">>, FALSE)
                 THEN [l EXCEPT !.error = "einsum: out_proj"]
                 ELSE [l EXCEPT !.ab = AddT(Einsum(ab, <<"r", "d">>, self.out_proj_w,
                                                   <<"r", "d", "c">>, <<"r", "c">>),
                                            self.out_proj_b)]

\* line 560 with the attended result of track 1 left as it is
geo_out_untransposed(self, l) ==
    LET gated == MulT(l.ab, SigmoidT(l.g))
        outer == AddT(SelectBeforeLast(gated, 0), SelectBeforeLast(gated, 1))
        attn == AddT(SelectLast(l.attended, 0), SelectLast(l.attended, 1))
    IN  [l EXCEPT !.gated = gated, !.outer = outer, !.attn = attn, !.out = AddT(outer, attn)]

\* lines 557-562
geo_out(self, l) ==
    LET gated == MulT(l.ab, SigmoidT(l.g))
        outer == AddT(SelectBeforeLast(gated, 0), SelectBeforeLast(gated, 1))
        attn == AddT(SelectLast(l.attended, 0),
                     Transpose(SelectLast(l.attended, 1), -2, -3))
    IN  [l EXCEPT !.gated = gated, !.outer = outer, !.attn = attn, !.out = AddT(outer, attn)]

\* lines 529-562
GeometricAttention_forward(self, edge_repr, mask) ==
    LET l1 == geo_stack(self, geo_locals(edge_repr, mask))
        l2 == geo_b(self, l1)
        l3 == IF l2.error # "" THEN l2 ELSE geo_attention(self, l2)
        l4 == IF l3.error # "" THEN l3 ELSE geo_act(self, l3)
        l5 == IF l4.error # "" THEN l4 ELSE geo_ab(self, l4)
    IN  IF l5.error # "" THEN l5 ELSE geo_out(self, l5)

(***************************************************************************)
(* The calls AttentionWEdgeBias.forward(node_repr, edge_repr, mask,        *)
(* fwd_cfg=...) and GeometricAttention.forward(edge_repr, mask), one       *)
(* action per step.                                                        *)
(***************************************************************************)
EdgeLen == 3       \* longest sequence of a call on edges

\* the masks of a sequence of length n, under the leading dimensions batch
Masks(batch, n) ==
    { Tensor(batch \o <<n>>, [ix \in Indices(batch \o <<n>>) |-> m[ix[Len(ix)]]]) :
        m \in [1..n -> {0, One}] }

EdgeBiasCalls ==
    LET modules == { AttentionWEdgeBias_init(MaxFeat, MaxFeat, h, g, MaxC, MaxSeed) :
                       h \in {1, MaxHead}, g \in BOOLEAN }
    IN  UNION { { [callee |-> "AttentionWEdgeBias", self |-> self, batch |-> batch,
                   node_repr |-> GenTensor(MaxSeed, batch \o <<n, MaxFeat>>),
                   edge_repr |-> GenTensor(MaxSeed + 1, batch \o <<n, n, MaxFeat>>),
                   mask |-> mask, fwd_cfg |-> cfg] :
                  mask \in Masks(batch, n) } :
                self \in modules, batch \in BatchShapes, n \in {2, EdgeLen},
                cfg \in {None, Some([subbatch_size |-> Some(EdgeLen)])} }

GeometricCalls ==
    LET modules == { GeometricAttention_init(MaxFeat, MaxC, h, Tracks, s) :
                       h \in {1, MaxHead}, s \in 0..MaxSeed }
    IN  UNION { { [callee |-> "GeometricAttention", self |-> self, batch |-> <<>>,
                   edge_repr |-> GenTensor(MaxSeed + 1, <<n, n, MaxFeat>>),
                   mask |-> mask] :
                  mask \in Masks(<<>>, n) } :
                self \in modules, n \in {2, EdgeLen} }

InitEdge ==
    /\ \/ /\ args \in EdgeBiasCalls
          /\ pc = "edge.normalize"
          /\ locals = edge_locals(args.node_repr, args.edge_repr, args.mask, args.fwd_cfg)
       \/ /\ args \in GeometricCalls
          /\ pc = "geo.stack"
          /\ locals = geo_locals(args.edge_repr, args.mask)
    /\ ret = <<>>
    /\ heap = <<>>

\* lines 482-483
AttentionWEdgeBias_normalize ==
    /\ pc = "edge.normalize"
    /\ StepTo(edge_normalize(args.self, locals), "edge.project")

\* line 485
AttentionWEdgeBias_project ==
    /\ pc = "edge.project"
    /\ StepTo(edge_project(args.self, locals), "edge.bias")

\* line 487
AttentionWEdgeBias_bias ==
    /\ pc = "edge.bias"
    /\ StepTo(edge_bias(args.self, locals), "edge.attention")

\* lines 488-491
AttentionWEdgeBias_attention ==
    /\ pc = "edge.attention"
    /\ \E l \in {edge_attention(args.self, locals)} :
          /\ locals' = l
          /\ IF l.error # ""
             THEN pc' = "error" /\ ret' = <<"error", l.error>>
             ELSE pc' = "done" /\ ret' = <<"ok", l.attn_out>>
    /\ UNCHANGED <<args, heap>>

\* lines 529-532
GeometricAttention_stack ==
    /\ pc = "geo.stack"
    /\ StepTo(geo_stack(args.self, locals), "geo.b")

\* lines 534-537
GeometricAttention_b ==
    /\ pc = "geo.b"
    /\ StepTo(geo_b(args.self, locals), "geo.attention")

\* line 538
GeometricAttention_attention ==
    /\ pc = "geo.attention"
    /\ StepTo(geo_attention(args.self, locals), "geo.act")

\* lines 540-547
GeometricAttention_act ==
    /\ pc = "geo.act"
    /\ StepTo(geo_act(args.self, locals), "geo.ab")

\* lines 549-556
GeometricAttention_ab ==
    /\ pc = "geo.ab"
    /\ StepTo(geo_ab(args.self, locals), "geo.out")

\* lines 557-562
GeometricAttention_out ==
    /\ pc = "geo.out"
    /\ locals' = geo_out(args.self, locals)
    /\ pc' = "done"
    /\ ret' = <<"ok", locals'.out>>
    /\ UNCHANGED <<args, heap>>

NextEdge ==
    \/ AttentionWEdgeBias_normalize
    \/ AttentionWEdgeBias_project
    \/ AttentionWEdgeBias_bias
    \/ AttentionWEdgeBias_attention
    \/ GeometricAttention_stack
    \/ GeometricAttention_b
    \/ GeometricAttention_attention
    \/ GeometricAttention_act
    \/ GeometricAttention_ab
    \/ GeometricAttention_out

SpecEdge == InitEdge /\ [][NextEdge]_vars

(***************************************************************************)
(* Claims about AttentionWEdgeBias.forward and GeometricAttention.forward. *)
(***************************************************************************)
EdgeBiasCall == args.callee = "AttentionWEdgeBias"
GeometricCall == args.callee = "GeometricAttention"

\* the call's mask at the position k of an unbatched sequence
MaskOf(k) == args.mask.val[<<k>>]

\* the penalty the mask puts on the key position k
Penalty(k) == IF MaskOf(k) = 0 THEN Inf ELSE 0

SomeKeyAllowed == \E k \in 1..args.mask.shape[1] : MaskOf(k) # 0

\* the bias handed to the attention is the projected bias with the penalty of
\* the key position taken off, at every head (and track) and query: a masked
\* key gets the large negative term, a key whose mask is 1 gets nothing
MaskBiasOnKeys ==
    /\ (EdgeBiasCall /\ Past({"edge.attention", "done"})) =>
          \A ix \in DOMAIN locals.bias.val :
              locals.bias.val[ix] = locals.edge_bias.val[ix] - Penalty(ix[3])
    /\ (GeometricCall /\ Past({"geo.attention", "geo.act", "geo.ab", "geo.out", "done"})) =>
          \A ix \in DOMAIN locals.b.val :
              locals.b.val[ix] = locals.linear_b.val[ix] - Penalty(ix[4])

\* the attention of the call has been computed
Attended ==
    \/ EdgeBiasCall /\ pc = "done"
    \/ GeometricCall /\ Past({"geo.act", "geo.ab", "geo.out", "done"})

\* the weight of every masked key is 0 for every query, head, track and chunk;
\* the weights come with the key axis last but one
MaskedKeysWeighZero ==
    \A ix \in DOMAIN locals.inner.logits.val :
        MaskOf(ix[Len(ix) - 1]) = 0 => locals.inner.logits.val[ix] = 0

\* C3: in both forwards the mask-derived bias is added at the key position p of
\* a zeroed mask entry for every query, head and track and nothing is added at
\* a position whose mask is 1; when at least one position has mask 1 the
\* attention weight of every masked key is 0 for all queries, heads, tracks
\* and chunks.
C3_MaskedKeysWithAnAllowedKey ==
    /\ MaskBiasOnKeys
    /\ (Attended /\ SomeKeyAllowed) => MaskedKeysWeighZero

\* a finished GeometricAttention call of two chunks and two heads over three
\* positions, the middle one masked
C3_Witness ==
    /\ pc = "done"
    /\ GeometricCall
    /\ args.mask.shape = <<3>>
    /\ MaskOf(1) = One /\ MaskOf(2) = 0 /\ MaskOf(3) = One
    /\ args.self.attention.n_head > 1
    /\ locals.inner.chunks = 2

\* C3 as stated: the weight of a masked key is 0 for all queries under every
\* mask with a zeroed position.
C3_MaskedKeysAlways ==
    /\ MaskBiasOnKeys
    /\ Attended => MaskedKeysWeighZero

\* the module with the learned tensors of its two tracks exchanged
FlipAt(t, p) ==
    Tensor(t.shape, [ix \in Indices(t.shape) |-> t.val[[ix EXCEPT ![p] = Tracks + 1 - ix[p]]]])

SwapTracks(self) ==
    [self EXCEPT !.linear_b_weights = FlipAt(@, 2),
                 !.linear_b_bias = FlipAt(@, 1),
                 !.act_w = FlipAt(@, 2),
                 !.act_b = FlipAt(@, 1),
                 !.out_proj_w = FlipAt(@, 1),
                 !.out_proj_b = FlipAt(@, 1),
                 !.attention = [@ EXCEPT !.qg_weights = FlipAt(@, 2),
                                         !.kv_weights = FlipAt(@, 2),
                                         !.qg_bias = FlipAt(@, 1),
                                         !.kv_bias = FlipAt(@, 1),
                                         !.o_weights = FlipAt(@, 1),
                                         !.o_bias = FlipAt(@, 2)]]

\* E^T: both pairwise index axes of an (L, L, d_edge) tensor swapped
TransposePair(t) == Transpose(t, -2, -3)

\* C4: GeometricAttention.forward applied to the transpose of E, with the
\* learned tensors of the two tracks exchanged, returns the outer-product part
\* of the call on E unchanged plus the transpose of its attended part:
\* out'(E^T) = (gated[0] + gated[1])(E) + (attended[0] + attended[1]^T)(E)^T.
C4_TransposeWithSwappedTracks ==
    (GeometricCall /\ pc = "done") =>
        LET other == GeometricAttention_forward(SwapTracks(args.self),
                                                TransposePair(args.edge_repr), args.mask)
        IN  /\ other.error = ""
            /\ other.out = AddT(locals.outer, TransposePair(locals.attn))

\* a finished call over three unmasked positions whose attended part and whose
\* output are not symmetric
C4_Witness ==
    /\ pc = "done"
    /\ GeometricCall
    /\ args.mask.shape = <<3>>
    /\ \A k \in 1..3 : MaskOf(k) = One
    /\ locals.attn # TransposePair(locals.attn)
    /\ locals.out # TransposePair(locals.out)
    /\ \E ix \in DOMAIN locals.outer.val : locals.outer.val[ix] # 0

\* C4 as stated: the outputs for E and for the transpose of E are transposes
\* of each other, out(E^T)[i, j] = out(E)[j, i].
C4_TransposeEquivariance ==
    (GeometricCall /\ pc = "done") =>
        LET other == GeometricAttention_forward(args.self, TransposePair(args.edge_repr),
                                                args.mask)
        IN  /\ other.error = ""
            /\ other.out = TransposePair(locals.out)

\* C5: a call of AttentionWEdgeBias.forward on node features (B, L, d_node), edge
\* features (B, L, L, d_edge) and a mask (B, L) returns a tensor of shape
\* (B, L, d_node), for every n_head.
C5_BatchedShape ==
    (EdgeBiasCall /\ args.batch # <<>> /\ Past({"done", "error"})) =>
        /\ pc = "done"
        /\ ret[2].shape = args.node_repr.shape

(***************************************************************************)
(* The effects of the calls on storage.  Here a tensor is the storage it   *)
(* reads and writes, <<owner, name>>: a view (unsqueeze, squeeze, split,   *)
(* a slice, transpose, permute) is the storage of its base, an             *)
(* out-of-place operation gives a new storage named after the statement    *)
(* that creates it, an in-place operation writes the storage of its        *)
(* target.  The memory m keeps a version for every storage (the number of  *)
(* writes since it was created, -1 before), and the storages written and   *)
(* created during the running call.                                        *)
(***************************************************************************)
MaxChunks == 2     \* most chunks of the query axis of a call

\* the tensors the caller holds: two of its own and the result of the last call
Caller == {<<"caller", n>> : n \in {"a", "b", "returned"}}

\* lines 348-366: the learned tensors of an Attention module
AttentionParameters(self) ==
    {<<self, n>> : n \in {"qg_weights", "kv_weights", "qg_bias", "kv_bias", "o_weights",
                          "o_bias"}}

\* the learned tensors of the three modules (lines 348-366, 450-461, 497-523)
Parameters ==
    AttentionParameters("Attention")
    \cup AttentionParameters("AttentionWEdgeBias.attention")
    \cup AttentionParameters("GeometricAttention.attention")
    \cup {<<"AttentionWEdgeBias", n>> : n \in {"proj_edge_bias.weight", "proj_edge_bias.bias"}}
    \cup {<<"GeometricAttention", n>> :
            n \in {"linear_b_weights", "linear_b_bias", "act_w", "act_b", "out_proj_w",
                   "out_proj_b"}}

\* the tensors the statements of the calls create
Sites ==
    {<<"softmax", n>> : n \in {"max_val", "summed", "result"}}
    \cup {<<"_attention", n>> : n \in {"scaled", "logits", "biased", "out"}}
    \cup {<<"attention", n>> : n \in {"output", "logits"}}
    \cup {<<"Attention.forward", n>> : n \in {"qg", "kv", "g", "output"}}
    \cup {<<"AttentionWEdgeBias.forward", n>> :
            n \in {"node_repr", "edge_repr", "edge_bias", "mask_bias", "bias"}}
    \cup {<<"GeometricAttention.forward", n>> :
            n \in {"edge_repr", "edge_stacked", "product", "b", "mask_bias", "act", "glu",
                   "edge_mask", "ab", "normalized", "projected", "gated", "out"}}

Storages == Caller \cup Parameters \cup Sites

\* an out-of-place operation whose result is the site s
New(m, s) == [m EXCEPT !.version[s] = 0, !.created = @ \cup {s}]

\* an in-place operation on x with the operand y: x += y, x *= y, x /= y,
\* x[...] = y, op(..., out=x)
InPlace(m, x, y) == [m EXCEPT !.version[x] = @ + 1, !.written = @ \cup {x}]

\* lines 58-66
softmax_effects(m, x, in_place) ==
    IF in_place
    THEN LET max_val == <<"softmax", "max_val">>
             summed == <<"softmax", "summed">>
         IN  [mem |-> InPlace(New(InPlace(InPlace(New(m, max_val), x, max_val), x, x),
                                  summed), x, summed),
              out |-> x]
    ELSE [mem |-> New(m, <<"softmax", "result">>), out |-> <<"softmax", "result">>]

\* line 90 with the logits added into the bias, bias += logits
biased_logits_in_bias(m, logits, bias) ==
    [mem |-> InPlace(m, bias, logits), out |-> bias]

\* line 90: logits + bias
biased_logits(m, logits, bias) ==
    [mem |-> New(m, <<"_attention", "biased">>), out |-> <<"_attention", "biased">>]

\* lines 89-92
_attention_effects(m, query, key, value, bias) ==
    LET logits == <<"_attention", "logits">>
        out == <<"_attention", "out">>
        operand == biased_logits(New(New(m, <<"_attention", "scaled">>), logits), logits, bias)
        attn == softmax_effects(operand.mem, operand.out, TRUE)
    IN  [mem |-> New(attn.mem, out), out |-> out, attn |-> attn.out]

\* lines 127-136: n chunks; q_i and b_i are views of query and bias
RECURSIVE attention_loop_effects(_, _, _, _, _, _)
attention_loop_effects(m, query, key, value, bias, n) ==
    IF n = 0 THEN m
    ELSE LET res == _attention_effects(m, query, key, value, bias)
         IN  attention_loop_effects(
                 InPlace(InPlace(res.mem, <<"attention", "output">>, res.out),
                         <<"attention", "logits">>, res.attn),
                 query, key, value, bias, n - 1)

\* lines 117-138
attention_effects(m, query, key, value, bias, chunks) ==
    [mem |-> attention_loop_effects(New(New(m, <<"attention", "output">>),
                                        <<"attention", "logits">>),
                                    query, key, value, bias, chunks),
     output |-> <<"attention", "output">>,
     logits |-> <<"attention", "logits">>]

\* lines 394-437 of the module whose learned tensors are those of self; q, k
\* and v are views of qg and kv, the results are views of output and logits
forward_effects(m, self, q_inputs, kv_inputs, bias, gating, chunks) ==
    LET qg == <<"Attention.forward", "qg">>
        kv == <<"Attention.forward", "kv">>
        g == <<"Attention.forward", "g">>
        output == <<"Attention.forward", "output">>
        attended == attention_effects(
                        InPlace(New(InPlace(New(m, qg), qg, <<self, "qg_bias">>), kv),
                                kv, <<self, "kv_bias">>),
                        qg, kv, kv, bias, chunks)
        gated == IF gating THEN InPlace(New(attended.mem, g), attended.output, g)
                 ELSE attended.mem
    IN  [mem |-> InPlace(New(gated, output), output, <<self, "o_bias">>),
         raised |-> FALSE, output |-> output, logits |-> attended.logits]

\* lines 482-491; permute raises on the projection of batched edge features
edge_effects(m, node_repr, edge_repr, mask, batched, gating, chunks) ==
    LET site(n) == <<"AttentionWEdgeBias.forward", n>>
        projected == New(New(New(m, site("node_repr")), site("edge_repr")), site("edge_bias"))
    IN  IF batched THEN [mem |-> projected, raised |-> TRUE, output |-> <<>>]
        ELSE LET inner == forward_effects(New(New(projected, site("mask_bias")), site("bias")),
                                          "AttentionWEdgeBias.attention", site("node_repr"),
                                          site("node_repr"), site("bias"), gating, chunks)
             IN  [mem |-> inner.mem, raised |-> FALSE, output |-> inner.output]

\* lines 529-562
geo_effects(m, edge_repr, mask, chunks) ==
    LET site(n) == <<"GeometricAttention.forward", n>>
        b == InPlace(New(New(New(New(New(m, site("edge_repr")), site("edge_stacked")),
                                 site("product")), site("b")), site("mask_bias")),
                     site("b"), site("mask_bias"))
        inner == forward_effects(b, "GeometricAttention.attention", site("edge_stacked"),
                                 site("edge_stacked"), site("b"), TRUE, chunks)
        act == InPlace(New(New(New(inner.mem, site("act")), site("glu")), site("edge_mask")),
                       site("glu"), site("edge_mask"))
        ab == New(New(New(act, site("ab")), site("normalized")), site("projected"))
    IN  [mem |-> New(New(ab, site("gated")), site("out")),
         raised |-> FALSE, output |-> site("out")]

(***************************************************************************)
(* Sequences of forward calls on the three modules, one action per call.   *)
(***************************************************************************)
InitFrame ==
    /\ pc = "idle"
    /\ args = <<>>
    /\ locals = <<>>
    /\ ret = <<>>
    /\ heap = [version |-> [s \in Storages |-> IF s \in Sites THEN -1 ELSE 0],
               written |-> {}, created |-> {}]

\* the memory at the entry of a call: the tensors of the last call are gone,
\* but for its result if the caller kept it
Enter(m) ==
    [version |-> [s \in Storages |-> IF s \in Sites THEN -1 ELSE m.version[s]],
     written |-> {}, created |-> {}]

\* the tensors the caller can pass
Inputs ==
    {<<"caller", "a">>, <<"caller", "b">>}
    \cup (IF pc = "returned" THEN {<<"caller", "returned">>} ELSE {})

\* the call has ended with the effects r
Returns(r) ==
    /\ heap' = r.mem
    /\ locals' = <<>>
    /\ IF r.raised
       THEN pc' = "raised" /\ ret' = <<"error", "raised">>
       ELSE pc' = "returned" /\ ret' = <<"ok", r.output>>

\* Attention.forward(q_inputs, kv_inputs, bias, fwd_cfg)
call_Attention ==
    \E q_inputs \in Inputs, kv_inputs \in Inputs, bias \in Inputs, gating \in BOOLEAN,
       chunks \in 1..MaxChunks :
        /\ args' = [callee |-> "Attention", q_inputs |-> q_inputs, kv_inputs |-> kv_inputs,
                    bias |-> bias, gating |-> gating, chunks |-> chunks]
        /\ Returns(forward_effects(Enter(heap), "Attention", q_inputs, kv_inputs, bias,
                                   gating, chunks))

\* AttentionWEdgeBias.forward(node_repr, edge_repr, mask, fwd_cfg)
call_AttentionWEdgeBias ==
    \E node_repr \in Inputs, edge_repr \in Inputs, mask \in Inputs, batched \in BOOLEAN,
       gating \in BOOLEAN, chunks \in 1..MaxChunks :
        /\ args' = [callee |-> "AttentionWEdgeBias", node_repr |-> node_repr,
                    edge_repr |-> edge_repr, mask |-> mask, batched |-> batched,
                    gating |-> gating, chunks |-> chunks]
        /\ Returns(edge_effects(Enter(heap), node_repr, edge_repr, mask, batched, gating,
                                chunks))

\* GeometricAttention.forward(edge_repr, mask)
call_GeometricAttention ==
    \E edge_repr \in Inputs, mask \in Inputs, chunks \in 1..MaxChunks :
        /\ args' = [callee |-> "GeometricAttention", edge_repr |-> edge_repr, mask |-> mask,
                    chunks |-> chunks]
        /\ Returns(geo_effects(Enter(heap), edge_repr, mask, chunks))

NextFrame ==
    \/ call_Attention
    \/ call_AttentionWEdgeBias
    \/ call_GeometricAttention

SpecFrame == InitFrame /\ [][NextFrame]_vars

(***************************************************************************)
(* Claims about the effects of the calls.                                  *)
(***************************************************************************)
\* the in-place steps: the in-place softmax, qg += qg_bias, kv += kv_bias,
\* attn_out *= g, output += o_bias, b += mask bias, act *= edge_mask
InPlaceTargets ==
    {<<"_attention", "biased">>, <<"Attention.forward", "qg">>, <<"Attention.forward", "kv">>,
     <<"attention", "output">>, <<"Attention.forward", "output">>,
     <<"GeometricAttention.forward", "b">>, <<"GeometricAttention.forward", "glu">>}

\* C10: after any sequence of forward calls on the three modules no learned
\* tensor and no tensor of the caller has been written: each holds the values
\* it had before the calls, and the tensors a call writes are tensors the call
\* has created.
C10_CallsWriteOnlyTheirOwnTensors ==
    /\ \A s \in Parameters \cup Caller : heap.version[s] = 0
    /\ heap.written \subseteq heap.created
    /\ heap.written \cap (Parameters \cup Caller) = {}

\* a GeometricAttention call of two chunks on the tensor an earlier call
\* returned, after which every in-place step has written its target
C10_Witness ==
    /\ pc = "returned"
    /\ args.callee = "GeometricAttention"
    /\ args.edge_repr = <<"caller", "returned">>
    /\ args.chunks = 2
    /\ InPlaceTargets \subseteq heap.written
    /\ heap.version[<<"attention", "output">>] = 3

====
